---- MODULE Spec2Model ----
(***************************************************************************)
(* Variational learner (src/learners/variational.py): the weight vector,   *)
(* hypothesis sampling, the four update strategies, the convergence test   *)
(* and the simulation harness learn_language / run_vl_on_languages.        *)
(*                                                                         *)
(* Weights and learning rates are exact rationals <<n, d>> in lowest terms *)
(* (d > 0); Python's binary floating point is not modelled.  The default   *)
(* learning rate .0005 is replaced by the rates of Rates, whose powers     *)
(* stay inside the integer range of the model checker.                     *)
(***************************************************************************)
EXTENDS Integers, Sequences, FiniteSets, TLC

(***************************************************************************)
(* State.                                                                  *)
(***************************************************************************)
VARIABLES
    num_params,         \* domain.num_params
    strategy,           \* the learner's class
    learning_rate,      \* learner.learning_rate
    weights,            \* learner.weights
    target,             \* the grammar whose language is the target language
    iterations,         \* learn_language's iteration cap
    counter,            \* learn_language's counter
    consumed,           \* number of calls of learner.consume made so far
    pc,                 \* position of the harness or of choose_grammar
    exit,               \* how learn_language's loop ended
    sentence,           \* the sentence of the latest consume call
    coins,              \* coin outcomes of the latest pass of choose_grammar
    grammar,            \* choose_grammar's local, the latest candidate
    outcome,            \* branch the latest consume call took
    passes,             \* passes of choose_grammar's loop (stepwise sampler)
    result              \* the row run_vl_on_languages yields

vars ==
    <<num_params, strategy, learning_rate, weights, target, iterations,
      counter, consumed, pc, exit, sentence, coins, grammar, outcome, passes,
      result>>

(***************************************************************************)
(* Bounds of the model.                                                    *)
(***************************************************************************)
\* learn_language is run with every iteration cap in 0..MaxIterations
MaxIterations == 2

\* the stepwise sampler starts from weight vectors with at most MaxFree
\* weights strictly between 0 and 1
MaxFree == 6

\* the stepwise sampler follows at most MaxPasses passes of the while loop
MaxPasses == 3

(***************************************************************************)
(* Exact rational arithmetic.                                              *)
(***************************************************************************)
RECURSIVE Gcd(_, _)
Gcd(a, b) == IF b = 0 THEN a ELSE Gcd(b, a % b)

Abs(n) == IF n < 0 THEN 0 - n ELSE n

Frac(n, d) ==
    LET g == Gcd(Abs(n), d) IN <<n \div g, d \div g>>

FAdd(x, y) == Frac(x[1] * y[2] + y[1] * x[2], x[2] * y[2])

FSub(x, y) == Frac(x[1] * y[2] - y[1] * x[2], x[2] * y[2])

FMul(x, y) == Frac(x[1] * y[1], x[2] * y[2])

FLess(x, y) == x[1] * y[2] < y[1] * x[2]

FLeq(x, y) == x[1] * y[2] <= y[1] * x[2]

Zero == <<0, 1>>

One == <<1, 1>>

Half == <<1, 2>>

(***************************************************************************)
(* Program constants.                                                      *)
(***************************************************************************)
\* range(13): the number of parameters every reward loop runs over
HardCodedParams == 13

\* 12 - index: the bit position of parameter 0 in choose_grammar and reward
TopBit == 12

\* threshold = 0.02 in learn_language
Threshold == <<1, 50>>

\* grammar = None before the first pass of choose_grammar's loop
None == -1

\* learning rates given to the learner's constructor
Rates == {<<1, 4>>, Half, One}

Strategies ==
    {"RewardOnlyLearner", "RewardOnlyRelevantLearner",
     "SkepticalRewardOnlyLearner", "PunishOnlyLearner"}

(***************************************************************************)
(* colag helpers (imported from colag.colag).                              *)
(***************************************************************************)
\* get_param_value(pos, grammar): the bit of grammar at position pos
get_param_value(pos, g) == (g \div 2^pos) % 2

\* toggled(pos, grammar): grammar with the bit at position pos flipped
toggled(pos, g) ==
    IF get_param_value(pos, g) = 1 THEN g - 2^pos ELSE g + 2^pos

\* Python's a ^ b on non-negative integers
RECURSIVE BitXor(_, _)
BitXor(a, b) ==
    IF a = 0 THEN b
    ELSE IF b = 0 THEN a
    ELSE (((a % 2) + (b % 2)) % 2) + 2 * BitXor(a \div 2, b \div 2)

(***************************************************************************)
(* The domain collaborator: two domains, one with the 13 parameters the    *)
(* code is written for and one with 3 parameters.                          *)
(***************************************************************************)
ParamCounts == {3, 13}

\* domain.legal_grammar's table
LegalGrammars(P) ==
    IF P = 13 THEN {0, 611, 8191} ELSE {0, 3}

legal_grammar(P, g) == g \in LegalGrammars(P)

\* domain.language[grammar]
language(P, g) ==
    IF P = 13
    THEN CASE g = 0    -> {1}
           [] g = 611  -> {1, 2}
           [] g = 8191 -> {2, 3}
    ELSE CASE g = 0 -> {1}
           [] g = 3 -> {1, 2}

\* domain.sentence_irr[sentence]: one symbol per parameter, "~" irrelevant,
\* "*" ambiguous, a digit otherwise
sentence_irr(P, s) ==
    IF P = 13
    THEN CASE s = 1 ->
                <<"0", "0", "0", "1", "0", "0", "1", "1", "0", "0", "0", "1", "1">>
           [] s = 2 ->
                <<"~", "*", "0", "1", "~", "*", "1", "1", "0", "0", "*", "1", "~">>
           [] s = 3 ->
                <<"*", "1", "1", "~", "1", "1", "*", "1", "~", "1", "1", "*", "1">>
    ELSE CASE s = 1 -> <<"0", "0", "0">>
           [] s = 2 -> <<"~", "*", "1">>

(***************************************************************************)
(* Grammar codec and hypothesis sampler.                                   *)
(***************************************************************************)
RECURSIVE ParamListLoop(_, _, _)
ParamListLoop(params, bit, g) ==
    IF bit = Len(params) THEN g
    ELSE ParamListLoop(params, bit + 1,
                       g + params[bit + 1] * 2^(Len(params) - bit - 1))

\* param_list_to_grammar(params); params[bit + 1] is Python's params[bit]
param_list_to_grammar(params) == ParamListLoop(params, 0, 0)

InitWeights(P) == [i \in 1..P |-> Half]

\* every vector of outcomes of the P coin flips of one pass
AllOutcomes(P) == [1..P -> {0, 1}]

\* random.random() < w, with random.random() in [0, 1): success needs w > 0,
\* failure needs w < 1
Possible(c, ws) ==
    \A i \in 1..Len(ws) :
        IF c[i] = 1 THEN FLess(Zero, ws[i]) ELSE FLess(ws[i], One)

\* the for loop of choose_grammar over enumerate(self.weights), run on the
\* grammar start: acc[index] is grammar after the passes for indexes < index
ToggleLoop(c, start) ==
    LET acc[index \in 0..Len(c)] ==
            IF index = 0 THEN start
            ELSE IF c[index] = 1
                 THEN toggled(TopBit - (index - 1), acc[index - 1])
                 ELSE acc[index - 1]
    IN  acc[Len(c)]

\* a pass without grammar = 0: the toggles land on the discarded candidate
SamplePassNoReset(prev, c) == ToggleLoop(c, IF prev = None THEN 0 ELSE prev)

\* one pass of the while loop of choose_grammar: the candidate is rebuilt from
\* grammar = 0, whatever the previous candidate prev was
SamplePass(prev, c) == ToggleLoop(c, 0)

\* per domain <<P, c>>, the coin outcomes c whose candidate the domain accepts
LegalOutcomes ==
    UNION {{<<P, c>> : c \in {d \in AllOutcomes(P) :
                                legal_grammar(P, SamplePass(None, d))}} :
           P \in ParamCounts}

\* the coin outcomes of the pass on which choose_grammar can return, given
\* the weights: the loop ends on the first legal candidate
ChooseOutcomes(P, ws) ==
    {q[2] : q \in {r \in LegalOutcomes : r[1] = P /\ Possible(r[2], ws)}}

\* parses(grammar, sentence)
parses(P, g, s) == s \in language(P, g)

(***************************************************************************)
(* Update strategies.  A reward returns the weights it leaves and whether  *)
(* it raised IndexError on the way.                                        *)
(***************************************************************************)
\* a step of the rate itself, not of the rate times the distance to the bound
UpdateAdditive(w, rate, val) ==
    IF val = 0 THEN FSub(w, rate)
    ELSE IF val = 1 THEN FAdd(w, rate)
    ELSE w

\* the bounded proportional update of one weight
Update(w, rate, val) ==
    IF val = 0 THEN FSub(w, FMul(rate, w))
    ELSE IF val = 1 THEN FAdd(w, FMul(rate, FSub(One, w)))
    ELSE w

\* val = get_param_value(12-index, hypothesis_grammar)
RewardBit(index, h) == get_param_value(TopBit - index, h)

RECURSIVE RewardOnlyLoop(_, _, _, _)
RewardOnlyLoop(ws, rate, h, index) ==
    IF index = HardCodedParams THEN [weights |-> ws, raised |-> FALSE]
    ELSE IF index >= Len(ws) THEN [weights |-> ws, raised |-> TRUE]
    ELSE RewardOnlyLoop(
            [ws EXCEPT ![index + 1] =
                Update(@, rate, RewardBit(index, h))],
            rate, h, index + 1)

RewardOnlyLearner_reward(ws, rate, h) == RewardOnlyLoop(ws, rate, h, 0)

RECURSIVE RelevantLoop(_, _, _, _, _)
RelevantLoop(ws, rate, h, trigger_str, index) ==
    IF index = HardCodedParams THEN [weights |-> ws, raised |-> FALSE]
    ELSE IF index >= Len(trigger_str) THEN [weights |-> ws, raised |-> TRUE]
    ELSE IF trigger_str[index + 1] = "~"
         THEN RelevantLoop(ws, rate, h, trigger_str, index + 1)
    ELSE IF index >= Len(ws) THEN [weights |-> ws, raised |-> TRUE]
    ELSE RelevantLoop(
            [ws EXCEPT ![index + 1] =
                Update(@, rate, RewardBit(index, h))],
            rate, h, trigger_str, index + 1)

\* the reward of RewardOnlyLearner, the annotation not consulted
RelevantIgnoresFilter(ws, rate, h, trigger_str) == RewardOnlyLoop(ws, rate, h, 0)

RewardOnlyRelevantLearner_reward(ws, rate, h, trigger_str) ==
    RelevantLoop(ws, rate, h, trigger_str, 0)

\* the rate left as it is
RateNotHalved(rate) == rate

\* learning_rate / 2
HalfRate(rate) == Frac(rate[1], rate[2] * 2)

RECURSIVE SkepticalLoop(_, _, _, _, _)
SkepticalLoop(ws, rate, h, trigger_str, index) ==
    IF index = HardCodedParams THEN [weights |-> ws, raised |-> FALSE]
    ELSE IF index >= Len(trigger_str) THEN [weights |-> ws, raised |-> TRUE]
    ELSE IF trigger_str[index + 1] = "~"
         THEN SkepticalLoop(ws, rate, h, trigger_str, index + 1)
    ELSE IF index >= Len(ws) THEN [weights |-> ws, raised |-> TRUE]
    ELSE LET lr == IF trigger_str[index + 1] = "*" THEN HalfRate(rate) ELSE rate
         IN  SkepticalLoop(
                [ws EXCEPT ![index + 1] =
                    Update(@, lr, RewardBit(index, h))],
                rate, h, trigger_str, index + 1)

SkepticalRewardOnlyLearner_reward(ws, rate, h, trigger_str) ==
    SkepticalLoop(ws, rate, h, trigger_str, 0)

\* ones = 2 ** num_params, without the - 1
PunishWrongMask(P, ws, rate, h) ==
    RewardOnlyLearner_reward(ws, rate, BitXor(h, 2^P))

\* ones = 2 ** num_params - 1; super().reward(hypothesis_grammar ^ ones)
PunishOnlyLearner_punish(P, ws, rate, h) ==
    RewardOnlyLearner_reward(ws, rate, BitXor(h, 2^P - 1))

NoOp(ws) == [weights |-> ws, raised |-> FALSE]

\* self.reward(hypothesis_grammar, sentence), by class
Reward(strat, P, ws, rate, h, s) ==
    CASE strat = "RewardOnlyLearner" -> RewardOnlyLearner_reward(ws, rate, h)
      [] strat = "RewardOnlyRelevantLearner" ->
            RewardOnlyRelevantLearner_reward(ws, rate, h, sentence_irr(P, s))
      [] strat = "SkepticalRewardOnlyLearner" ->
            SkepticalRewardOnlyLearner_reward(ws, rate, h, sentence_irr(P, s))
      [] strat = "PunishOnlyLearner" -> NoOp(ws)

\* self.punish(hypothesis_grammar, sentence), by class
Punish(strat, P, ws, rate, h, s) ==
    IF strat = "PunishOnlyLearner"
    THEN PunishOnlyLearner_punish(P, ws, rate, h)
    ELSE NoOp(ws)

\* the body of consume once choose_grammar has returned h
ConsumeUpdate(strat, P, ws, rate, h, s) ==
    IF parses(P, h, s)
    THEN Reward(strat, P, ws, rate, h, s)
    ELSE Punish(strat, P, ws, rate, h, s)

(***************************************************************************)
(* Convergence and best guess.                                             *)
(***************************************************************************)
\* converged(threshold): False as soon as a weight w has
\* (not (1 - w < threshold)) or (w < threshold)
converged(ws, threshold) ==
    \A i \in 1..Len(ws) :
        ~ ((~ FLess(FSub(One, ws[i]), threshold)) \/ FLess(ws[i], threshold))

\* Python 3's round(x): to the nearest integer, a tie to the even one
Round(x) ==
    LET q == x[1] \div x[2]
        r == x[1] % x[2]
    IN  IF 2 * r < x[2] THEN q
        ELSE IF 2 * r > x[2] THEN q + 1
        ELSE IF q % 2 = 0 THEN q ELSE q + 1

best_guess(ws) == param_list_to_grammar([i \in 1..Len(ws) |-> Round(ws[i])])

(***************************************************************************)
(* The simulation harness: one trial of run_vl_on_languages.               *)
(***************************************************************************)
NoResult == <<>>

\* the cap test with > for >=
CapReachedLate(k, cap) == k > cap

\* if counter >= iterations: break
CapReached(k, cap) == k >= cap

Init ==
    /\ num_params \in ParamCounts
    /\ strategy \in Strategies
    /\ learning_rate \in Rates
    /\ weights = InitWeights(num_params)
    /\ target \in LegalGrammars(num_params)
    /\ iterations \in 0..MaxIterations
    /\ counter = 0
    /\ consumed = 0
    /\ pc = "loop"
    /\ exit = "none"
    /\ sentence = 0
    /\ coins = <<>>
    /\ grammar = None
    /\ outcome = "none"
    /\ passes = 0
    /\ result = NoResult

\* the loop test of learn_language found the learner converged: return counter
LoopConverged ==
    /\ pc = "loop"
    /\ converged(weights, Threshold)
    /\ pc' = "returned"
    /\ exit' = "converged"
    /\ UNCHANGED <<num_params, strategy, learning_rate, weights, target,
                   iterations, counter, consumed, sentence, coins, grammar,
                   outcome, passes, result>>

\* one pass of the loop of learn_language: choose_sentence, learner.consume,
\* the cap test and the increment of counter
LoopConsume ==
    /\ pc = "loop"
    /\ ~ converged(weights, Threshold)
    /\ \E s \in language(num_params, target) :
       \E c \in ChooseOutcomes(num_params, weights) :
          LET h == SamplePass(None, c)
              r == ConsumeUpdate(strategy, num_params, weights, learning_rate, h, s)
          IN  /\ sentence' = s
              /\ coins' = c
              /\ grammar' = h
              /\ outcome' = IF parses(num_params, h, s) THEN "reward" ELSE "punish"
              /\ weights' = r.weights
              /\ consumed' = consumed + 1
              /\ IF r.raised
                 THEN /\ pc' = "raised"
                      /\ UNCHANGED <<counter, exit>>
                 ELSE IF CapReached(counter, iterations)
                 THEN /\ pc' = "returned"
                      /\ exit' = "cap"
                      /\ UNCHANGED counter
                 ELSE /\ pc' = "loop"
                      /\ counter' = counter + 1
                      /\ UNCHANGED exit
    /\ UNCHANGED <<num_params, strategy, learning_rate, target, iterations,
                   passes, result>>

\* learner.consume is called and choose_grammar never finds a legal candidate
ConsumeHangs ==
    /\ pc = "loop"
    /\ ~ converged(weights, Threshold)
    /\ ChooseOutcomes(num_params, weights) = {}
    /\ pc' = "hung"
    /\ consumed' = consumed + 1
    /\ UNCHANGED <<num_params, strategy, learning_rate, weights, target,
                   iterations, counter, exit, sentence, coins, grammar,
                   outcome, passes, result>>

\* run_vl_on_languages builds the row: learner.choose_grammar() is its grammar
YieldResult ==
    /\ pc = "returned"
    /\ \E c \in ChooseOutcomes(num_params, weights) :
          /\ coins' = c
          /\ grammar' = SamplePass(None, c)
          /\ result' = [grammar |-> target,
                        sentences_consumed |-> counter,
                        final_grammar |-> SamplePass(None, c),
                        weights |-> weights]
    /\ pc' = "yielded"
    /\ UNCHANGED <<num_params, strategy, learning_rate, weights, target,
                   iterations, counter, consumed, exit, sentence, outcome,
                   passes>>

\* the choose_grammar call of the row never finds a legal candidate
YieldHangs ==
    /\ pc = "returned"
    /\ ChooseOutcomes(num_params, weights) = {}
    /\ pc' = "hung"
    /\ UNCHANGED <<num_params, strategy, learning_rate, weights, target,
                   iterations, counter, consumed, exit, sentence, coins,
                   grammar, outcome, passes, result>>

Next ==
    \/ LoopConverged
    \/ LoopConsume
    \/ ConsumeHangs
    \/ YieldResult
    \/ YieldHangs

Spec == Init /\ [][Next]_vars

(***************************************************************************)
(* choose_grammar pass by pass: the while loop of lines 93-100, from the   *)
(* weights a learner has at construction or after one consume call.        *)
(***************************************************************************)
\* the sentences of the domain's languages
DomainSentences(P) == UNION {language(P, g) : g \in LegalGrammars(P)}

\* the weight vectors after one consume call that returned
OneStepWeights(strat, P, rate) ==
    {ConsumeUpdate(strat, P, InitWeights(P), rate, h, s).weights :
        <<h, s>> \in {q \in LegalGrammars(P) \X DomainSentences(P) :
            ~ ConsumeUpdate(strat, P, InitWeights(P), rate, q[1], q[2]).raised}}

FreeCount(ws) ==
    Cardinality({i \in 1..Len(ws) : FLess(Zero, ws[i]) /\ FLess(ws[i], One)})

SamplerInit ==
    /\ num_params \in ParamCounts
    /\ strategy \in Strategies
    /\ learning_rate \in Rates
    /\ weights \in {ws \in {InitWeights(num_params)}
                            \cup OneStepWeights(strategy, num_params, learning_rate) :
                       FreeCount(ws) <= MaxFree}
    /\ target = 0
    /\ iterations = 0
    /\ counter = 0
    /\ consumed = 0
    /\ pc = "choosing"
    /\ exit = "none"
    /\ sentence = 0
    /\ coins = <<>>
    /\ grammar = None
    /\ outcome = "none"
    /\ passes = 0
    /\ result = NoResult

\* the loop test fails (the candidate is None or illegal) and the body runs:
\* grammar = 0, then one coin flip and perhaps one toggle per weight
SamplerPass ==
    /\ pc = "choosing"
    /\ ~ legal_grammar(num_params, grammar)
    /\ passes < MaxPasses
    /\ \E c \in AllOutcomes(num_params) :
          /\ Possible(c, weights)
          /\ coins' = c
          /\ grammar' = SamplePass(grammar, c)
    /\ passes' = passes + 1
    /\ UNCHANGED <<num_params, strategy, learning_rate, weights, target,
                   iterations, counter, consumed, pc, exit, sentence, outcome,
                   result>>

\* the loop test finds the candidate legal: return grammar
SamplerReturn ==
    /\ pc = "choosing"
    /\ legal_grammar(num_params, grammar)
    /\ pc' = "chosen"
    /\ UNCHANGED <<num_params, strategy, learning_rate, weights, target,
                   iterations, counter, consumed, exit, sentence, coins,
                   grammar, outcome, passes, result>>

SamplerNext ==
    \/ SamplerPass
    \/ SamplerReturn

SpecSampler == SamplerInit /\ [][SamplerNext]_vars

(***************************************************************************)
(* Properties.                                                             *)
(***************************************************************************)
InUnitInterval(w) == FLeq(Zero, w) /\ FLeq(w, One)

\* C1: for each of the four strategies and every learning rate in (0, 1],
\* after any sequence of consume calls from the all-0.5 vector every weight
\* lies in the closed interval [0, 1].
C1_WeightsInUnitInterval ==
    \A i \in 1..Len(weights) : InUnitInterval(weights[i])

\* two consume calls have updated the weights and both ends of the interval
\* have been reached
C1_Witness ==
    /\ consumed >= 2
    /\ outcome # "none"
    /\ \E i \in 1..Len(weights) : weights[i] = One
    /\ \E i \in 1..Len(weights) : weights[i] = Zero

\* every weight is within threshold of 0 or of 1
NearBoundary(ws, threshold) ==
    \A i \in 1..Len(ws) :
        FLess(ws[i], threshold) \/ FLess(FSub(One, ws[i]), threshold)

\* C2: at every loop test of learn_language, converged(threshold) returns
\* true if and only if every weight w has w < threshold or
\* 1 - w < threshold (so it is true of a vector whose weights are some below
\* 0.02 and the others above 0.98).
C2_ConvergedIffNearBoundary ==
    pc = "loop" =>
        (converged(weights, Threshold) <=> NearBoundary(weights, Threshold))

\* the value of parameter i (0-based) of grammar g when parameter i occupies
\* bit position P - 1 - i
ParamBit(P, i, g) == get_param_value(P - 1 - i, g)

\* C3: with P = num_params parameters, parameter i occupies bit P - 1 - i in
\* param_list_to_grammar, in choose_grammar and in reward: the candidate
\* choose_grammar builds from a vector of coin outcomes is
\* param_list_to_grammar of the outcomes, and the bit reward reads for
\* weight i is the bit at position P - 1 - i.
C3_BitMapping ==
    grammar # None =>
        /\ grammar = param_list_to_grammar(coins)
        /\ \A i \in 0..(num_params - 1) :
              RewardBit(i, grammar) = ParamBit(num_params, i, grammar)

\* C4: learn_language returns exactly the number of sentences it fed to
\* learner.consume, whether the loop ended on convergence or on the cap.
C4_ReturnsConsumed ==
    exit # "none" => counter = consumed

\* C5: the final grammar of every yielded row is the learner's best guess,
\* the encoding of the final weights each rounded to 0 or 1.
C5_FinalGrammarIsBestGuess ==
    pc = "yielded" => result.final_grammar = best_guess(result.weights)

\* h with its P parameter bits flipped and no other bit changed
Complement(P, h) ==
    param_list_to_grammar([i \in 1..P |-> 1 - ParamBit(P, i - 1, h)])
        + (h \div 2^P) * 2^P

\* hypothesis grammars over P parameters
SampleGrammars(P) ==
    LegalGrammars(P) \cup {1, 2, 5, 2^(P - 1), 2^P - 2, 2^P - 1}

\* C6: for the weights, rate and hypothesis h at hand, PunishOnlyLearner.punish
\* leaves the vector RewardOnlyLearner.reward produces from the same vector
\* when given the P-bit complement of h.
C6_PunishIsRewardOfComplement ==
    strategy = "PunishOnlyLearner" =>
        \A h \in SampleGrammars(num_params) :
            PunishOnlyLearner_punish(num_params, weights, learning_rate, h)
                = RewardOnlyLearner_reward(weights, learning_rate,
                                           Complement(num_params, h))

\* a PunishOnlyLearner has punished a hypothesis
C6_Witness ==
    /\ strategy = "PunishOnlyLearner"
    /\ outcome = "punish"
    /\ weights # InitWeights(num_params)

\* w - rate * w for bit 0, w + rate * (1 - w) for bit 1
ProportionalStep(w, rate, bit) ==
    IF bit = 0 THEN FSub(w, FMul(rate, w))
    ELSE FAdd(w, FMul(rate, FSub(One, w)))

\* a step in which learner.consume ran to its reward or punish call
ConsumeStep == consumed' = consumed + 1 /\ pc' # "hung"

\* C7: in RewardOnlyRelevantLearner.reward(h, sentence), a weight whose
\* parameter the annotation marks irrelevant is unchanged by the call, and
\* every other weight i receives the bounded proportional update for bit i
\* of h.
C7_RelevanceFilter ==
    [][(/\ strategy = "RewardOnlyRelevantLearner"
        /\ ConsumeStep
        /\ outcome' = "reward")
       => \A i \in 1..num_params :
             weights'[i] =
                IF sentence_irr(num_params, sentence')[i] = "~"
                THEN weights[i]
                ELSE ProportionalStep(weights[i], learning_rate,
                                      ParamBit(num_params, i - 1, grammar'))]_vars

\* the first reward of a RewardOnlyRelevantLearner left an irrelevant weight
\* as it was and moved another
C7_Witness ==
    /\ strategy = "RewardOnlyRelevantLearner"
    /\ outcome = "reward"
    /\ consumed = 1
    /\ \E i, j \in 1..num_params :
          /\ sentence_irr(num_params, sentence)[i] = "~"
          /\ weights[i] = Half
          /\ sentence_irr(num_params, sentence)[j] # "~"
          /\ weights[j] # Half

\* C8: from the same weights, rate and hypothesis, the change
\* SkepticalRewardOnlyLearner.reward makes to the weight of a parameter
\* annotated ambiguous is half the change RewardOnlyRelevantLearner.reward
\* makes (same sign); for a parameter with no annotation the two changes are
\* equal, and for an irrelevant one both are zero.
C8_SkepticalHalvesAmbiguous ==
    \A s \in DomainSentences(num_params) :
    \A h \in LegalGrammars(num_params) :
        LET irr == sentence_irr(num_params, s)
            sk == SkepticalRewardOnlyLearner_reward(weights, learning_rate, h, irr)
            rl == RewardOnlyRelevantLearner_reward(weights, learning_rate, h, irr)
        IN  \A i \in 1..num_params :
                LET ds == FSub(sk.weights[i], weights[i])
                    dr == FSub(rl.weights[i], weights[i])
                IN  CASE irr[i] = "*" -> FMul(<<2, 1>>, ds) = dr
                      [] irr[i] = "~" -> ds = Zero /\ dr = Zero
                      [] OTHER -> ds = dr

\* a SkepticalRewardOnlyLearner has rewarded a hypothesis on a sentence with
\* an ambiguous parameter, whose weight moved
C8_Witness ==
    /\ strategy = "SkepticalRewardOnlyLearner"
    /\ outcome = "reward"
    /\ consumed = 1
    /\ \E i \in 1..num_params :
          /\ sentence_irr(num_params, sentence)[i] = "*"
          /\ weights[i] # Half

\* C9: with iteration cap c, learner.consume is called at most c + 1 times,
\* exactly c + 1 times when learn_language returns without the learner
\* having reported converged, and never after a loop test at which
\* converged(0.02) is true.
C9_ConsumeBound ==
    /\ [](/\ consumed <= iterations + 1
          /\ (exit = "cap" => consumed = iterations + 1))
    /\ [][((pc = "loop" /\ converged(weights, Threshold)) \/ exit # "none")
            => consumed' = consumed]_vars

\* the loop ended on convergence before the cap was reached
C9_Witness ==
    /\ exit = "converged"
    /\ consumed >= 1
    /\ consumed <= iterations

\* the candidate one pass builds from the coin outcomes c alone, bit
\* 12 - index set where the flip for index succeeded
FromScratch(c) ==
    LET sum[n \in 0..Len(c)] ==
            IF n = 0 THEN 0 ELSE sum[n - 1] + c[n] * 2^(TopBit - (n - 1))
    IN  sum[Len(c)]

\* C10: every grammar choose_grammar returns is legal per
\* domain.legal_grammar, and a candidate, built after an illegal one was
\* discarded, holds the outcomes of its own pass only.
C10_ChosenGrammarLegal ==
    /\ pc = "chosen" => legal_grammar(num_params, grammar)
    /\ grammar # None =>
          /\ grammar = FromScratch(coins)
          /\ Possible(coins, weights)

\* choose_grammar returned after discarding an illegal candidate
C10_Witness ==
    /\ pc = "chosen"
    /\ passes >= 2

====
